---- MODULE Spec2Model ----
(***************************************************************************)
(* Model of src/src/App.jsx: a React chat client made of the hook useAuth  *)
(* and the components AuthScreen, ChatApp and App.                         *)
(*                                                                         *)
(* useAuth is a plain hook built on useState: every component that calls   *)
(* it owns a separate token cell (App line 189, AuthScreen line 56,        *)
(* ChatApp line 108).  The only thing the three instances share is the     *)
(* localStorage entry 'token'.  The model therefore keeps three token      *)
(* variables, appToken, authToken and chatToken, next to storage.          *)
(*                                                                         *)
(* One action is one event handler, or one continuation of an async        *)
(* function after its await, together with the render and the effects      *)
(* React runs as a consequence of it.                                      *)
(***************************************************************************)
EXTENDS Integers, Sequences, FiniteSets, Bags, TLC

VARIABLES
    storage,     \* localStorage entry 'token': NoItem or a token
    appToken,    \* token cell of App's useAuth instance
    ready,       \* App's ready flag
    authToken,   \* token cell of AuthScreen's useAuth instance
    mode,        \* AuthScreen: "login" or "register"
    loading,     \* AuthScreen: loading flag
    error,       \* AuthScreen: inline error text
    chatToken,   \* token cell of ChatApp's useAuth instance
    users,       \* ChatApp: contact list
    activeUser,  \* ChatApp: active contact, or NoUser
    messages,    \* ChatApp: displayed message list
    text,        \* ChatApp: content of the text input
    net,         \* requests in flight: a bag, the network keeps no order
    db,          \* backend: message history per contact
    nextId,      \* backend: id of the next created message
    posts,       \* history: number of POST /api/messages requests issued
    granted,     \* history: token the backend granted last, NoItem when none is in force
    loggedOut,   \* history: logout ran and no login/register has succeeded since
    lastOp       \* history: the step that produced the current state, when it is the
                 \* page load, a step of AuthScreen or a send; "other" otherwise

vars == <<storage, appToken, ready, authToken, mode, loading, error,
          chatToken, users, activeUser, messages, text, net, db, nextId,
          posts, granted, loggedOut, lastOp>>

appVars  == <<appToken, ready>>
authVars == <<authToken, mode, loading, error>>
chatVars == <<chatToken, users, activeUser, messages, text>>
srvVars  == <<db, nextId, posts>>
histVars == <<granted, loggedOut>>

---------------------------------------------------------------------------
(* Bounds of the model *)

NumTokens   == 2    \* distinct access tokens the backend hands out
NumContacts == 2    \* users the backend knows
MaxSends    == 1    \* POST /api/messages requests issued in one behaviour
MaxInFlight == 2    \* requests in flight at once

---------------------------------------------------------------------------
(* Values *)

\* '' : the empty token of useState(() => ... || '')
EmptyToken == 0
\* null : what localStorage.getItem returns when the entry is absent
NoItem == -1
\* null : the initial activeUser
NoUser == 0

Tokens   == 1..NumTokens
Contacts == 1..NumContacts
\* the array GET /api/users answers with when it is not empty
AllUsers == [i \in 1..NumContacts |-> i]

\* contents of the text input: empty, whitespace only, and one with a visible
\* character, padded with whitespace on both sides
Texts == {<<>>, <<" ">>, <<" ", "x", " ">>}

\* the body of a non-success answer that parses as JSON (e.g. {detail: ...})
ErrBody == [detail |-> "error"]

---------------------------------------------------------------------------
(* useAuth *)

\* a token initialiser that does not read localStorage
GetItemIgnored(st) == EmptyToken

\* localStorage.getItem('token') || ''
GetItemOrEmpty(st) == IF st = NoItem THEN EmptyToken ELSE st

\* useMemo(() => ({'Content-Type': ..., ...(token ? {Authorization: `Bearer ${token}`} : {})}))
\* A header set is a record of the two headers the client knows; Absent is
\* the value of a header that is not in the set.
Absent == <<>>

\* `Bearer ${token}`
Bearer(token) == <<"Bearer ", token>>

\* Headers with the Authorization entry whatever the token
HeadersAlwaysAuth(token) ==
    [ContentType |-> "application/json", Authorization |-> Bearer(token)]

\* Headers without the Authorization entry
HeadersNoAuth(token) ==
    [ContentType |-> "application/json", Authorization |-> Absent]

Headers(token) ==
    [ContentType |-> "application/json",
     Authorization |-> IF token # EmptyToken THEN Bearer(token) ELSE Absent]

\* the literal headers of the login and register requests
JsonHeaders == [ContentType |-> "application/json", Authorization |-> Absent]

\* fetch(url) without an init object: no headers of the application
NoHeaders == [ContentType |-> Absent, Authorization |-> Absent]

HasAuth(h) == h.Authorization # Absent

---------------------------------------------------------------------------
(* String.prototype.trim on the text input *)

RECURSIVE TrimLeft(_)
TrimLeft(s) == IF s # <<>> /\ Head(s) = " " THEN TrimLeft(Tail(s)) ELSE s

RECURSIVE TrimRight(_)
TrimRight(s) ==
    IF s # <<>> /\ s[Len(s)] = " " THEN TrimRight(SubSeq(s, 1, Len(s) - 1)) ELSE s

Trim(s) == TrimRight(TrimLeft(s))

---------------------------------------------------------------------------
(* Requests in flight *)

\* A request: what was sent (kind, headers, to, text; to doubles as the
\* activeUser the closure of the continuation saw) and where it stands at
\* the backend.  since is the length the requested history had when the
\* request was issued: the backend answers a GET with the history as it is
\* at some moment between the request and its answer.  created holds the
\* message a POST has created, once the backend has handled it.
Req(kind, hdr, to, txt, since) ==
    [kind |-> kind, headers |-> hdr, to |-> to, text |-> txt,
     since |-> since, created |-> <<>>]

InFlight == BagCardinality(net)

Issue(q, reqs) == q (+) SetToBag({reqs[k] : k \in 1..Len(reqs)})

Remove(q, r) == q (-) SetToBag({r})

Created(q, r, msg) ==
    Remove(q, r) (+) SetToBag({[r EXCEPT !.created = <<msg>>]})

\* first effect of ChatApp, deps [token]
UsersEffect(tok, au) ==
    IF tok = EmptyToken THEN <<>> ELSE <<Req("users", NoHeaders, au, <<>>, 0)>>

\* second effect of ChatApp, deps [token, activeUser]
LoadEffect(tok, au) ==
    IF tok = EmptyToken \/ au = NoUser
    THEN <<>>
    ELSE <<Req("getMessages", Headers(tok), au, <<>>, Len(db[au]))>>

---------------------------------------------------------------------------
(* App *)

\* if (!ready || !token) return <AuthScreen/>; return <ChatApp/>
View(rdy, tok) == IF ~rdy \/ tok = EmptyToken THEN "auth" ELSE "chat"

Rendered == View(ready, appToken)

\* The state of the three components after the page is loaded with st in
\* localStorage: every useState initialiser runs, then the mount effects.
PageState(st) ==
    LET tok == GetItemOrEmpty(st)
        rdy == tok # EmptyToken
        chat == View(rdy, tok) = "chat"
    IN  [appToken |-> tok,
         ready |-> rdy,
         authToken |-> IF chat THEN EmptyToken ELSE tok,
         chatToken |-> IF chat THEN tok ELSE EmptyToken,
         net |-> IF chat
                 THEN Issue(EmptyBag, UsersEffect(tok, NoUser) \o LoadEffect(tok, NoUser))
                 ELSE EmptyBag]

InitDb == [c \in Contacts |-> <<[id |-> c, peer |-> c, text |-> <<"x">>]>>]

\* The first visit: localStorage holds no entry yet.
Init ==
    /\ storage = NoItem
    /\ appToken = PageState(storage).appToken
    /\ ready = PageState(storage).ready
    /\ authToken = PageState(storage).authToken
    /\ chatToken = PageState(storage).chatToken
    /\ net = PageState(storage).net
    /\ mode = "login"
    /\ loading = FALSE
    /\ error = ""
    /\ users = <<>>
    /\ activeUser = NoUser
    /\ messages = <<>>
    /\ text = <<>>
    /\ db = InitDb
    /\ nextId = NumContacts + 1
    /\ posts = 0
    /\ granted = NoItem
    /\ loggedOut = FALSE
    /\ lastOp = "load"

\* A page reload: the running script and its pending continuations are
\* discarded, localStorage survives, the components are constructed anew.
Reload ==
    /\ appToken' = PageState(storage).appToken
    /\ ready' = PageState(storage).ready
    /\ authToken' = PageState(storage).authToken
    /\ chatToken' = PageState(storage).chatToken
    /\ net' = PageState(storage).net
    /\ mode' = "login"
    /\ loading' = FALSE
    /\ error' = ""
    /\ users' = <<>>
    /\ activeUser' = NoUser
    /\ messages' = <<>>
    /\ text' = <<>>
    /\ lastOp' = "reload"
    /\ UNCHANGED <<storage, srvVars, histVars>>


---------------------------------------------------------------------------
(* AuthScreen *)

\* onClick={() => setMode(...)}
SetMode(m) ==
    /\ Rendered = "auth"
    /\ mode' = m
    /\ lastOp' = "other"
    /\ UNCHANGED <<storage, appVars, authToken, loading, error, chatVars, net,
                   srvVars, histVars>>

\* submit, up to the await of fetch inside login or register.  The submit
\* button is disabled while loading is set.
Submit ==
    /\ Rendered = "auth"
    /\ ~loading
    /\ InFlight < MaxInFlight
    /\ loading' = TRUE
    /\ error' = ""
    /\ net' = Issue(net, <<Req(mode, JsonHeaders, NoUser, <<>>, 0)>>)
    /\ lastOp' = "submit"
    /\ UNCHANGED <<storage, appVars, authToken, mode, chatVars, srvVars, histVars>>

IsAuthReq(r) == r.kind \in {"login", "register"}

\* res.ok: login/register stores the token, submit calls onAuthed and, in
\* its finally block, clears loading.  onAuthed is () => setReady(true) of
\* App; when that makes App render ChatApp, ChatApp is mounted (its token
\* initialiser reads the entry just written) and AuthScreen is discarded.
AuthOk(r, t) ==
    /\ r \in BagToSet(net)
    /\ IsAuthReq(r)
    /\ storage' = t
    /\ ready' = TRUE
    /\ appToken' = appToken
    /\ IF View(TRUE, appToken) = "chat"
       THEN /\ chatToken' = GetItemOrEmpty(t)
            /\ net' = Issue(Remove(net, r), UsersEffect(GetItemOrEmpty(t), NoUser))
            /\ authToken' = EmptyToken
            /\ loading' = FALSE
            /\ error' = ""
            /\ mode' = "login"
       ELSE /\ authToken' = t
            /\ loading' = FALSE
            /\ net' = Remove(net, r)
            /\ UNCHANGED <<chatToken, error, mode>>
    /\ granted' = t
    /\ loggedOut' = FALSE
    /\ lastOp' = "authOk"
    /\ UNCHANGED <<users, activeUser, messages, text, srvVars>>

\* the message of the Error thrown when !res.ok
FailText(kind) == IF kind = "login" THEN "Login failed" ELSE "Register failed"

\* e.message || 'Something went wrong'
ErrorText(msg) == IF msg # "" THEN msg ELSE "Something went wrong"

\* submit without its finally block
AuthNotOkNoFinally(r) ==
    /\ r \in BagToSet(net)
    /\ IsAuthReq(r)
    /\ error' = ErrorText(FailText(r.kind))
    /\ net' = Remove(net, r)
    /\ lastOp' = "authNotOk"
    /\ UNCHANGED <<storage, appVars, authToken, mode, loading, chatVars, srvVars,
                   histVars>>

\* !res.ok: login/register throws, submit shows the message and clears loading
AuthNotOk(r) ==
    /\ r \in BagToSet(net)
    /\ IsAuthReq(r)
    /\ error' = ErrorText(FailText(r.kind))
    /\ loading' = FALSE
    /\ net' = Remove(net, r)
    /\ lastOp' = "authNotOk"
    /\ UNCHANGED <<storage, appVars, authToken, mode, chatVars, srvVars, histVars>>

\* fetch itself rejects (no connection): the same catch and finally blocks
AuthRejected(r) ==
    /\ r \in BagToSet(net)
    /\ IsAuthReq(r)
    /\ error' = ErrorText("Failed to fetch")
    /\ loading' = FALSE
    /\ net' = Remove(net, r)
    /\ lastOp' = "authRejected"
    /\ UNCHANGED <<storage, appVars, authToken, mode, chatVars, srvVars, histVars>>

---------------------------------------------------------------------------
(* ChatApp *)

\* onChange={e => setText(e.target.value)}
TypeText(v) ==
    /\ Rendered = "chat"
    /\ v # text
    /\ text' = v
    /\ lastOp' = "other"
    /\ UNCHANGED <<storage, appVars, authVars, chatToken, users, activeUser,
                   messages, net, srvVars, histVars>>

\* onClick={() => setActiveUser(u)} on a contact button, and the second
\* effect when that changes activeUser
SelectContact(k) ==
    /\ Rendered = "chat"
    /\ k \in 1..Len(users)
    /\ InFlight + Len(LoadEffect(chatToken, users[k])) <= MaxInFlight
    /\ activeUser' = users[k]
    /\ net' = IF users[k] # activeUser
              THEN Issue(net, LoadEffect(chatToken, users[k]))
              ELSE net
    /\ lastOp' = "other"
    /\ UNCHANGED <<storage, appVars, authVars, chatToken, users, messages, text,
                   srvVars, histVars>>

\* the guard of send without trim()
SendIsNoOpNoTrim(txt, au) == txt = <<>> \/ au = NoUser

\* if (!text.trim() || !activeUser) return
SendIsNoOp(txt, au) == Trim(txt) = <<>> \/ au = NoUser

\* an optimistic send: the typed message is shown at submission
SendOptimistic ==
    /\ Rendered = "chat"
    /\ IF SendIsNoOp(text, activeUser)
       THEN /\ net' = net
            /\ posts' = posts
            /\ messages' = messages
       ELSE /\ InFlight < MaxInFlight
            /\ posts < MaxSends
            /\ net' = Issue(net, <<Req("sendMessage", Headers(chatToken),
                                       activeUser, text, 0)>>)
            /\ posts' = posts + 1
            /\ messages' = Append(messages,
                                  [id |-> 0, peer |-> activeUser, text |-> text])
    /\ lastOp' = "send"
    /\ UNCHANGED <<storage, appVars, authVars, chatToken, users, activeUser, text,
                   db, nextId, histVars>>

\* send, up to the await of fetch
Send ==
    /\ Rendered = "chat"
    /\ IF SendIsNoOp(text, activeUser)
       THEN /\ net' = net
            /\ posts' = posts
       ELSE /\ InFlight < MaxInFlight
            /\ posts < MaxSends
            /\ net' = Issue(net, <<Req("sendMessage", Headers(chatToken),
                                       activeUser, text, 0)>>)
            /\ posts' = posts + 1
    /\ lastOp' = "send"
    /\ UNCHANGED <<storage, appVars, authVars, chatVars, db, nextId, histVars>>

\* logout without localStorage.removeItem
LogoutKeepsItem ==
    /\ Rendered = "chat"
    /\ chatToken' = EmptyToken
    /\ net' = Issue(net, UsersEffect(EmptyToken, activeUser)
                         \o LoadEffect(EmptyToken, activeUser))
    /\ granted' = NoItem
    /\ loggedOut' = TRUE
    /\ lastOp' = "other"
    /\ UNCHANGED <<storage, appVars, authVars, users, activeUser, messages, text,
                   srvVars>>

\* logout of ChatApp's useAuth instance; both effects run again for the
\* changed token and return at their first line
Logout ==
    /\ Rendered = "chat"
    /\ storage' = NoItem
    /\ chatToken' = EmptyToken
    /\ net' = Issue(net, UsersEffect(EmptyToken, activeUser)
                         \o LoadEffect(EmptyToken, activeUser))
    /\ granted' = NoItem
    /\ loggedOut' = TRUE
    /\ lastOp' = "other"
    /\ UNCHANGED <<appVars, authVars, users, activeUser, messages, text, srvVars>>

\* loadUsers without the selection of the first contact
UsersLoadedNoSelect(r, data) ==
    /\ r \in BagToSet(net)
    /\ r.kind = "users"
    /\ users' = data
    /\ net' = Remove(net, r)
    /\ lastOp' = "other"
    /\ UNCHANGED <<storage, appVars, authVars, chatToken, activeUser, messages,
                   text, srvVars, histVars>>

\* loadUsers after its awaits: data is the array the backend answered with
UsersLoaded(r, data) ==
    /\ r \in BagToSet(net)
    /\ r.kind = "users"
    /\ users' = data
    /\ activeUser' = IF r.to = NoUser /\ Len(data) > 0 THEN data[1] ELSE activeUser
    /\ net' = IF activeUser' # activeUser
              THEN Issue(Remove(net, r), LoadEffect(chatToken, activeUser'))
              ELSE Remove(net, r)
    /\ lastOp' = "other"
    /\ UNCHANGED <<storage, appVars, authVars, chatToken, messages, text,
                   srvVars, histVars>>

\* a load continuation that drops the answer of a superseded request
MessagesLoadedIfCurrent(r, n) ==
    /\ r \in BagToSet(net)
    /\ r.kind = "getMessages"
    /\ n \in r.since..Len(db[r.to])
    /\ messages' = IF r.to = activeUser THEN SubSeq(db[r.to], 1, n) ELSE messages
    /\ net' = Remove(net, r)
    /\ lastOp' = "other"
    /\ UNCHANGED <<storage, appVars, authVars, chatToken, users, activeUser,
                   text, srvVars, histVars>>

\* load after its awaits: setMessages(data), data being the first n messages
\* of the history, i.e. the history as the backend read it
MessagesLoaded(r, n) ==
    /\ r \in BagToSet(net)
    /\ r.kind = "getMessages"
    /\ n \in r.since..Len(db[r.to])
    /\ messages' = SubSeq(db[r.to], 1, n)
    /\ net' = Remove(net, r)
    /\ lastOp' = "other"
    /\ UNCHANGED <<storage, appVars, authVars, chatToken, users, activeUser,
                   text, srvVars, histVars>>

\* send after its awaits: setMessages(prev => [...prev, msg]); setText('').
\* res.ok is not looked at: the parsed body is appended whatever the status.
SendAnswered(r) ==
    /\ r \in BagToSet(net)
    /\ r.kind = "sendMessage"
    /\ r.created # <<>>
    /\ messages' = Append(messages, r.created[1])
    /\ text' = <<>>
    /\ net' = Remove(net, r)
    /\ lastOp' = "other"
    /\ UNCHANGED <<storage, appVars, authVars, chatToken, users, activeUser,
                   srvVars, histVars>>

\* send after its awaits when the backend refused the request with a
\* non-success status and a JSON body: msg is that body
SendRefused(r) ==
    /\ r \in BagToSet(net)
    /\ r.kind = "sendMessage"
    /\ r.created = <<>>
    /\ messages' = Append(messages, ErrBody)
    /\ text' = <<>>
    /\ net' = Remove(net, r)
    /\ lastOp' = "other"
    /\ UNCHANGED <<storage, appVars, authVars, chatToken, users, activeUser,
                   srvVars, histVars>>

\* fetch or res.json() of a ChatApp request rejects: the async function ends
\* with an unhandled rejection and sets no state
ChatRejected(r) ==
    /\ r \in BagToSet(net)
    /\ r.kind \in {"users", "getMessages", "sendMessage"}
    /\ net' = Remove(net, r)
    /\ lastOp' = "other"
    /\ UNCHANGED <<storage, appVars, authVars, chatVars, srvVars, histVars>>

---------------------------------------------------------------------------
(* The backend, as far as the client's requests observe it *)

\* POST /api/messages handled: the message is created and stored
ServeSend(r) ==
    /\ r \in BagToSet(net)
    /\ r.kind = "sendMessage"
    /\ r.created = <<>>
    /\ LET msg == [id |-> nextId, peer |-> r.to, text |-> r.text]
       IN  /\ db' = [db EXCEPT ![r.to] = Append(@, msg)]
           /\ net' = Created(net, r, msg)
    /\ nextId' = nextId + 1
    /\ lastOp' = "other"
    /\ UNCHANGED <<storage, appVars, authVars, chatVars, posts, histVars>>

---------------------------------------------------------------------------

Next ==
    \/ Reload
    \/ \E m \in {"login", "register"} : SetMode(m)
    \/ Submit
    \/ \E r \in BagToSet(net), t \in Tokens : AuthOk(r, t)
    \/ \E r \in BagToSet(net) : AuthNotOk(r)
    \/ \E r \in BagToSet(net) : AuthRejected(r)
    \/ \E v \in Texts : TypeText(v)
    \/ \E k \in Contacts : SelectContact(k)
    \/ Send
    \/ Logout
    \/ \E r \in BagToSet(net), data \in {<<>>, AllUsers} : UsersLoaded(r, data)
    \/ \E r \in BagToSet(net), n \in 0..(1 + MaxSends) : MessagesLoaded(r, n)
    \/ \E r \in BagToSet(net) : SendAnswered(r)
    \/ \E r \in BagToSet(net) : SendRefused(r)
    \/ \E r \in BagToSet(net) : ChatRejected(r)
    \/ \E r \in BagToSet(net) : ServeSend(r)

Spec == Init /\ [][Next]_vars

---------------------------------------------------------------------------
(* Vocabulary of the properties *)

\* the calls the backend authenticates: GET /api/messages/{id}, POST /api/messages
IsAuthedCall(r) == r.kind \in {"getMessages", "sendMessage"}

\* the requests a step issues
NewRequests == {r \in BagToSet(net') : CopiesIn(r, net') > CopiesIn(r, net)}

\* an element of the message list that is a message, not an error body
IsMessage(m) == m # ErrBody

\* empty or whitespace only
Blank(txt) == \A k \in 1..Len(txt) : txt[k] = " "

\* the token cell of the child component App renders
ChildToken == IF Rendered = "chat" THEN chatToken ELSE authToken

---------------------------------------------------------------------------
(* Properties *)

\* C1: a successful login/register answer carrying token t leaves t in the
\* storage entry, and every get-messages or send-message request issued
\* while that grant is in force (no later grant, no logout) carries
\* Authorization: Bearer t.
C1_TokenPersistedAndAttached ==
    [][ /\ lastOp' = "authOk" => storage' = granted' /\ granted' \in Tokens
        /\ \A r \in NewRequests :
              IsAuthedCall(r) /\ granted' # NoItem
                  => r.headers.Authorization = Bearer(granted')
      ]_vars

\* C1 witness: a granted token sits in storage and a message request that
\* carries it as bearer is in flight.
C1_Witness ==
    /\ granted \in Tokens
    /\ storage = granted
    /\ \E r \in BagToSet(net) :
          IsAuthedCall(r) /\ r.headers.Authorization = Bearer(granted)

\* C2: right after a successful login/register from the auth screen, App
\* renders ChatApp.
C2_LoginShowsChat == lastOp = "authOk" => Rendered = "chat"

\* C3: a login/register answered with a non-success status shows a
\* non-empty error, stays on the auth screen without calling onAuthed,
\* writes no token, and clears the loading flag.
C3_FailedAuthShowsError ==
    [][ lastOp' = "authNotOk"
          => /\ error' # ""
             /\ Rendered' = "auth"
             /\ ready' = ready
             /\ storage' = storage
             /\ authToken' = authToken
             /\ ~loading'
      ]_vars

\* C3 witness: a refused register submission has been answered.
C3_Witness ==
    lastOp = "authNotOk" /\ error = "Register failed" /\ ~loading /\ storage = NoItem

\* C4: whenever the storage entry is gone and the rendered session's token
\* is empty, the auth screen is what is rendered.
C4_NoTokenMeansLoggedOut ==
    (storage = NoItem /\ chatToken = EmptyToken /\ authToken = EmptyToken)
        => Rendered = "auth"

\* C5: every get-messages and send-message request carries an Authorization
\* bearer header.
C5_AuthedCallsCarryBearer ==
    \A r \in BagToSet(net) : IsAuthedCall(r) => HasAuth(r.headers)

\* C6: while a contact is active, the displayed list holds no message of a
\* conversation with another contact.
C6_NoForeignHistory ==
    activeUser # NoUser
        => \A k \in 1..Len(messages) :
              IsMessage(messages[k]) => messages[k].peer = activeUser

\* C7: once logout has run (and no login/register has succeeded since), the
\* storage entry is gone, and a reload leaves every component with the
\* empty token and App rendering the auth screen.
C7_LogoutThenReloadShowsAuth ==
    /\ loggedOut => storage = NoItem
    /\ loggedOut /\ lastOp = "reload"
          => /\ appToken = EmptyToken
             /\ authToken = EmptyToken
             /\ chatToken = EmptyToken
             /\ Rendered = "auth"

\* C7 witness: the page has been reloaded after a logout.
C7_Witness == loggedOut /\ lastOp = "reload" /\ Rendered = "auth"

\* C8: a send submitted with empty or whitespace-only text, or with no
\* active contact, issues no request and changes neither the message list,
\* the text input, the active contact nor any token.
C8_NoOpSend ==
    [][ lastOp' = "send" /\ (Blank(text) \/ activeUser = NoUser)
          => UNCHANGED <<net, posts, messages, text, activeUser, chatToken,
                         appToken, storage>>
      ]_vars

\* C8 witness: a whitespace-only text was submitted to an active contact.
C8_Witness ==
    lastOp = "send" /\ text = <<" ">> /\ activeUser # NoUser /\ net = EmptyBag

\* C9: once logout has run, the storage entry is gone and no component
\* holds a non-empty token.
C9_LogoutClearsMemory ==
    loggedOut
        => /\ storage = NoItem
           /\ chatToken = EmptyToken
           /\ authToken = EmptyToken
           /\ appToken = EmptyToken

\* C10: the storage entry changes only by a successful login/register (to
\* the granted token) or by logout (to absent); a reload leaves it alone and
\* gives App and the child it renders the stored token, or '' when absent.
C10_StorageChangesOnlyByAuth ==
    [][ /\ storage' # storage
              => \/ lastOp' = "authOk" /\ storage' = granted'
                 \/ loggedOut' /\ ~loggedOut /\ storage' = NoItem
        /\ lastOp' = "reload"
              => /\ storage' = storage
                 /\ appToken' = (IF storage = NoItem THEN EmptyToken ELSE storage)
                 /\ ChildToken' = appToken'
      ]_vars

\* C10 witness: the page was reloaded with a granted token in storage.
C10_Witness ==
    /\ lastOp = "reload"
    /\ storage \in Tokens
    /\ appToken = storage
    /\ chatToken = storage

\* C11: no order is enforced between history answers.  In every state, the
\* answer to any pending history request can be applied next, and doing so
\* makes the displayed list the history of the contact that request was
\* for while the active contact stays what it is; so with B active, B's
\* history displayed and only A's superseded request pending, the next
\* step leaves A's history under B with nothing pending.
C11_StaleAnswerApplies ==
    \A r \in BagToSet(net) :
        r.kind = "getMessages"
            => ENABLED ( /\ MessagesLoaded(r, r.since)
                         /\ messages' = SubSeq(db[r.to], 1, r.since)
                         /\ messages' # <<>>
                         /\ activeUser' = activeUser
                         /\ net' = Remove(net, r) )

\* C11 witness: contact 2 is active and its history is displayed (its
\* answer came first) while the request for contact 1, issued before the
\* switch, is the only one still pending.
C11_Witness ==
    /\ activeUser = 2
    /\ messages = db[2]
    /\ \E r \in BagToSet(net) :
          r.kind = "getMessages" /\ r.to = 1 /\ net = SetToBag({r})

\* the elements of a list
Elems(q) == {q[k] : k \in 1..Len(q)}

\* the displayed messages that belong to the conversation with contact c
Shown(c) == {m \in Elems(messages) : IsMessage(m) /\ m.peer = c}

\* C12: while the active contact stays the same, no displayed message of
\* the conversation with that contact is removed from the list.
C12_AppendOnly ==
    [][ activeUser # NoUser /\ activeUser' = activeUser
          => Shown(activeUser) \subseteq Shown(activeUser)'
      ]_vars

IssuedFor(c) ==
    LET new == {r \in NewRequests : r.kind = "getMessages" /\ r.to = c}
    IN  IF new = {} THEN 0
        ELSE LET r == CHOOSE x \in new : TRUE
             IN  IF Cardinality(new) = 1
                 THEN CopiesIn(r, net') - CopiesIn(r, net)
                 ELSE Cardinality(new)

\* C14: in the chat view, every step that makes another contact B the
\* active one issues exactly one GET /api/messages/{B}, and an answer to
\* such a request that changes the list replaces it by the answered history.
C14_SwitchFetchesHistory ==
    [][ /\ ( /\ Rendered = "chat"
             /\ lastOp' # "reload"
             /\ activeUser' # activeUser
             /\ activeUser' # NoUser )
               => IssuedFor(activeUser') = 1
        /\ \A r \in BagToSet(net) :
              ( /\ r.kind = "getMessages"
                /\ net' = Remove(net, r)
                /\ lastOp' # "reload"
                /\ messages' # messages )
                  => \E n \in r.since..Len(db[r.to]) :
                        messages' = SubSeq(db[r.to], 1, n)
      ]_vars

\* the contact-list requests in flight
UsersRequests(q) == {r \in BagToSet(q) : r.kind = "users"}

\* C15: a contact-list request is issued only when the chat view is
\* entered, and then exactly one; its answer becomes the contact list, and
\* the first contact becomes active exactly when none was active and the
\* list is not empty, otherwise the active contact stays what it was.
C15_ContactsLoadedOnce ==
    [][ /\ \A r \in NewRequests :
              r.kind = "users"
                  => lastOp' \in {"reload", "authOk"} /\ CopiesIn(r, net') = 1
        /\ ( /\ lastOp' \in {"reload", "authOk"}
             /\ Rendered' = "chat"
             /\ chatToken' # EmptyToken )
               => Cardinality(UsersRequests(net')) = 1
        /\ \A r \in BagToSet(net), data \in {<<>>, AllUsers} :
              UsersLoaded(r, data)
                  => /\ users' = data
                     /\ activeUser' = IF activeUser = NoUser /\ data # <<>>
                                      THEN data[1]
                                      ELSE activeUser
      ]_vars

\* C15 witness: the contact list has arrived, its first contact has become
\* the active one and its history is being fetched.
C15_Witness ==
    /\ Rendered = "chat"
    /\ users = AllUsers
    /\ activeUser = AllUsers[1]
    /\ messages = <<>>
    /\ UsersRequests(net) = {}
    /\ \E r \in BagToSet(net) : r.kind = "getMessages" /\ r.to = AllUsers[1]

\* C16: every element of the displayed list is a message the backend holds
\* in the history with its contact: one of a fetched history or the message
\* a successful send created.  A failed send adds nothing.
C16_FailedSendAppendsNothing ==
    \A m \in Elems(messages) : IsMessage(m) /\ m \in Elems(db[m.peer])

\* C17: the answer to a send addressed to contact A is not appended to the
\* list while another contact is the active one.
C17_SendAnswerStaysInConversation ==
    [][ \A r \in BagToSet(net) :
          ( /\ r.kind = "sendMessage"
            /\ r.created # <<>>
            /\ net' = Remove(net, r)
            /\ lastOp' # "reload"
            /\ r.to # activeUser )
              => messages' = messages
      ]_vars

\* C18: the headers of a request are determined by the token of the
\* component that issues it: Content-Type: application/json always, and an
\* Authorization header exactly when the token is not empty, its value being
\* 'Bearer ' followed by the token.
C18_HeadersFromToken ==
    [][ \A r \in NewRequests :
          IsAuthedCall(r) /\ r.created = <<>>
              => /\ r.headers.ContentType = "application/json"
                 /\ HasAuth(r.headers) <=> chatToken # EmptyToken
                 /\ chatToken # EmptyToken
                       => r.headers.Authorization = <<"Bearer ", chatToken>>
      ]_vars

\* C18 witness: a request issued with a token and one issued with the empty
\* token are pending together, the first with a bearer header, the second
\* with Content-Type only.
C18_Witness ==
    /\ chatToken = EmptyToken
    /\ \E r \in BagToSet(net) :
          /\ r.kind = "getMessages"
          /\ r.headers.ContentType = "application/json"
          /\ \E t \in Tokens : r.headers.Authorization = <<"Bearer ", t>>
    /\ \E r \in BagToSet(net) :
          /\ r.kind = "sendMessage"
          /\ r.headers.ContentType = "application/json"
          /\ r.headers.Authorization = Absent

====
